---- MODULE Spec2Model ----
(***************************************************************************)
(* Model of the Manus AI development system:                               *)
(*   multi_ai_integration.py  MultiAIOrchestrator and the five provider    *)
(*                            integrations (fan-out, gather, aggregation)  *)
(*   manus_ai_system.py       ManusAISystem (authentication gate, stats,   *)
(*                            operation log, error log)                    *)
(*   github_automation.py     GitHubAutomation counters and histories,     *)
(*                            GitWorkflow                                  *)
(*   kael_consciousness_core.py  ConsciousnessCore.process_stimulus,       *)
(*                            Emotions, EthicalFramework.evaluate_action   *)
(*                                                                         *)
(* Confidences are floats in the source.  They are modelled as integers in *)
(* hundredths (0.92 is 92) and a mean as the exact pair <<sum, count>>.    *)
(* For every subset of the three shipped confidence tables, and for every  *)
(* sequence of up to five values of ConfLevels, Python's                   *)
(* sum(...) / len(...) compares with 0.85 and 0.75 exactly as the exact    *)
(* rational does (checked exhaustively), so the classification below is    *)
(* the one the floats give.  This does not hold for arbitrary confidences: *)
(* (0.9 + 0.8) / 2 is 0.8500000000000001 in IEEE doubles.                  *)
(*                                                                         *)
(* Scheduling is asyncio's: a coroutine runs without interruption until it *)
(* awaits a pending future.  The only such await is asyncio.gather, so an  *)
(* operation is two atomic blocks (everything up to the gather, everything *)
(* after it) with the provider tasks in between, run in creation order.    *)
(***************************************************************************)
EXTENDS Integers, Sequences, FiniteSets, TLC

VARIABLES
    confidence,       \* [kind][provider]: the confidence each integration returns
    raising,          \* integrations whose operations raise (AIIntegration's own methods)
    enabled_systems,  \* MultiAIOrchestrator.enabled_systems
    reg_ret,          \* what the latest enable_ai / disable_ai call returned
    call,             \* the call of each caller: position, locals, outcome
    is_authenticated, \* ManusAISystem.is_authenticated
    is_running,       \* ManusAISystem.is_running
    stats,            \* ManusAISystem.stats
    operation_log,    \* ManusAISystem.operation_log
    error_log,        \* ManusAISystem.error_log
    github,           \* GitHubAutomation: authenticated, counters, histories
    consciousness_log, \* ConsciousnessCore.self_model.consciousness_log
    emotional_range,  \* ConsciousnessCore.emotional_core: current_level per emotion
    bot_ai_systems,   \* ManusAIBot.ai_systems: the "enabled" flag of each system
    bot_reply,        \* the Status field of the embed ManusAIBot.cmd_ai sent last
    view,             \* what the latest read-only call (a status, a history, a score) returned
    gh_ret            \* what the latest call made on GitHubAutomation itself returned

orchestrator_vars == <<confidence, raising, enabled_systems, reg_ret>>

system_vars ==
    <<is_authenticated, is_running, stats, operation_log, error_log, github,
      consciousness_log, emotional_range>>

bot_vars == <<bot_ai_systems, bot_reply>>

read_vars == <<view, gh_ret>>

vars == <<orchestrator_vars, call, system_vars, bot_vars, read_vars>>

(***************************************************************************)
(* Static configuration                                                    *)
(***************************************************************************)

\* class AIProvider, in declaration (enumeration) order
AIProvider == <<"claude", "deepseek", "perplexity", "gemini", "grok", "manus">>

\* MultiAIOrchestrator.ai_systems: a dict, iterated in insertion order
AiSystemsOrder == <<"claude", "deepseek", "perplexity", "gemini", "grok">>

Range(s) == {s[i] : i \in 1..Len(s)}

Registered == Range(AiSystemsOrder)

Kinds == {"generate_code", "analyze_code", "answer_question"}

\* The confidence literal of each integration's three operations, in hundredths
ShippedConfidence ==
    [generate_code |->
        [claude |-> 92, deepseek |-> 94, perplexity |-> 85, gemini |-> 88, grok |-> 90],
     analyze_code |->
        [claude |-> 88, deepseek |-> 91, perplexity |-> 87, gemini |-> 86, grok |-> 87],
     answer_question |->
        [claude |-> 90, deepseek |-> 89, perplexity |-> 91, gemini |-> 88, grok |-> 89]]

\* avg_confidence > 0.85 and avg_confidence > 0.75, in hundredths
HighThreshold == 85
MediumThreshold == 75

\* The callers that may have a consensus call in flight at the same time
Callers == {"a", "b"}

\* Confidence values of a configurable provider table (hundredths)
ConfLevels == {50, 75, 85, 100}

\* The providers the environment enables and disables while two calls overlap
TogglePool == {"claude", "perplexity", "manus"}

\* At most this many ManusAISystem calls that write a log entry
MaxOps == 2

\* The histories a status is taken of have up to this many entries
MaxHistory == 12

\* The limits passed to get_commit_history and get_pr_history: 0..MaxLimit
MaxLimit == 3

\* At most this many branches, commits and pull requests made on
\* GitHubAutomation directly
MaxGitOps == 4

\* At most this many reflections in the consciousness log when a stimulus is
\* given to the consciousness core directly
MaxStimuli == 2

\* At most this many branches when workflows are run
MaxWorkflows == 3

\* The names listed after the chosen principles in an argument of
\* evaluate_action: at most this many
MaxExtra == 1

\* GitHub tokens passed to initialize: the empty string and a non-empty one
Tokens == {"", "mock_github_token"}

\* 100 + len(self.pr_history)
FirstPrNumber == 100

\* self.operation_log[-10:], self.error_log[-5:], self.commit_history[-5:]
RecentOperations == 10
RecentErrors == 5
RecentCommits == 5

(***************************************************************************)
(* Provider integrations                                                   *)
(***************************************************************************)

\* One integration's operation: the AIResponse it returns.  The five shipped
\* subclasses return a literal; AIIntegration's own methods raise.
ProviderCall(kind, p) ==
    IF p \in raising
    THEN [ok |-> FALSE, provider |-> p, confidence |-> 0, error |-> "NotImplementedError"]
    ELSE [ok |-> TRUE, provider |-> p, confidence |-> confidence[kind][p], error |-> "none"]

(***************************************************************************)
(* Aggregation: the part of the three *_consensus methods after the gather *)
(***************************************************************************)

\* results["responses"] = [{"provider": ..., "confidence": ...} for r in responses]
ResponseDicts(responses) ==
    [i \in 1..Len(responses) |->
        [provider |-> responses[i].provider, confidence |-> responses[i].confidence]]

\* max(responses, key=lambda r: r.confidence): a later element replaces the
\* running maximum only when it is strictly greater
RECURSIVE MaxFrom(_, _, _)
MaxFrom(responses, i, best) ==
    IF i > Len(responses) THEN best
    ELSE MaxFrom(responses, i + 1,
                 IF responses[i].confidence > responses[best].confidence THEN i ELSE best)

BestResponse(responses) ==
    LET best == MaxFrom(responses, 2, 1)
    IN  [provider |-> responses[best].provider, confidence |-> responses[best].confidence]

RECURSIVE SumConfidence(_)
SumConfidence(responses) ==
    IF responses = <<>> THEN 0
    ELSE Head(responses).confidence + SumConfidence(Tail(responses))

AvgOverAllSystems(responses) ==
    [sum |-> SumConfidence(responses), count |-> Len(AiSystemsOrder)]

AvgOverStillEnabled(responses) ==
    LET still == SelectSeq(responses, LAMBDA r : r.provider \in enabled_systems)
    IN  [sum |-> SumConfidence(still), count |-> Len(still)]

\* avg_confidence = sum(r.confidence for r in responses) / len(responses),
\* kept as the exact fraction sum / count
AvgConfidence(responses) ==
    [sum |-> SumConfidence(responses), count |-> Len(responses)]

\* avg > t, for t in hundredths
Above(avg, t) == avg.sum > t * avg.count

\* generate_code_consensus:
\*   "high" if avg > 0.85 else "medium" if avg > 0.75 else "low"
AgreementLevelGenerate(avg) ==
    IF Above(avg, HighThreshold) THEN "high"
    ELSE IF Above(avg, MediumThreshold) THEN "medium"
    ELSE "low"

\* analyze_code_consensus and answer_question_consensus:
\*   "high" if avg > 0.85 else "medium"
AgreementLevelAnalyze(avg) ==
    IF Above(avg, HighThreshold) THEN "high" ELSE "medium"

AgreementLevelAnswer(avg) ==
    IF Above(avg, HighThreshold) THEN "high" ELSE "medium"

Raised(error) == [status |-> "raised", error |-> error]

Returned(result) == [status |-> "returned", result |-> result]

\* max() of an empty list raises ValueError before the average is reached
GenerateCodeConsensus(responses) ==
    IF responses = <<>> THEN Raised("ValueError")
    ELSE Returned([responses |-> ResponseDicts(responses),
                   best_response |-> BestResponse(responses),
                   consensus |->
                      [average_confidence |-> AvgConfidence(responses),
                       agreement_level |-> AgreementLevelGenerate(AvgConfidence(responses))]])

\* sum([]) / len([]) raises ZeroDivisionError
AnalyzeCodeConsensus(responses) ==
    IF responses = <<>> THEN Raised("ZeroDivisionError")
    ELSE Returned([responses |-> ResponseDicts(responses),
                   consensus |->
                      [average_confidence |-> AvgConfidence(responses),
                       agreement_level |-> AgreementLevelAnalyze(AvgConfidence(responses))]])

AnswerQuestionConsensus(responses) ==
    IF responses = <<>> THEN Raised("ZeroDivisionError")
    ELSE Returned([responses |-> ResponseDicts(responses),
                   consensus |->
                      [average_confidence |-> AvgConfidence(responses),
                       agreement_level |-> AgreementLevelAnswer(AvgConfidence(responses))]])

Aggregate(kind, responses) ==
    CASE kind = "generate_code"   -> GenerateCodeConsensus(responses)
      [] kind = "analyze_code"    -> AnalyzeCodeConsensus(responses)
      [] kind = "answer_question" -> AnswerQuestionConsensus(responses)

(***************************************************************************)
(* Provider registry: enable_ai, disable_ai                                *)
(***************************************************************************)

EnableIgnoresRegistry(enabled, p) == enabled \cup {p}

EnableAnyProvider(enabled, p) ==
    IF p \in Range(AIProvider) THEN enabled \cup {p} ELSE enabled

\* enable_ai: add the provider when it is a key of ai_systems
EnableSet(enabled, p) == IF p \in Registered THEN enabled \cup {p} ELSE enabled

EnableRet(enabled, p) == p \in Registered

\* disable_ai: remove the provider when it is enabled
DisableSet(enabled, p) == IF p \in enabled THEN enabled \ {p} ELSE enabled

DisableRet(enabled, p) == p \in enabled

\* reg_ret: the call (op, provider), whether the provider was enabled when it
\* was made (was), and the value it returned (ret)
NoRegistryCall == [op |-> "none", provider |-> "none", was |-> FALSE, ret |-> FALSE]

EnableAI(p) ==
    /\ enabled_systems' = EnableSet(enabled_systems, p)
    /\ reg_ret' = [op |-> "enable_ai", provider |-> p, was |-> p \in enabled_systems,
                   ret |-> EnableRet(enabled_systems, p)]
    /\ UNCHANGED <<confidence, raising, call, system_vars, bot_vars, read_vars>>

DisableAI(p) ==
    /\ enabled_systems' = DisableSet(enabled_systems, p)
    /\ reg_ret' = [op |-> "disable_ai", provider |-> p, was |-> p \in enabled_systems,
                   ret |-> DisableRet(enabled_systems, p)]
    /\ UNCHANGED <<confidence, raising, call, system_vars, bot_vars, read_vars>>

(***************************************************************************)
(* GitHubAutomation (called by ManusAISystem)                              *)
(***************************************************************************)

\* authenticate: an empty token is refused
Authenticate(g, token) ==
    IF token = "" THEN g ELSE [g EXCEPT !.authenticated = TRUE]

CreateBranch(g, branch_name) ==
    IF ~g.authenticated THEN g
    ELSE [g EXCEPT !.branch_history = Append(@, branch_name),
                   !.branches_created = @ + 1]

\* f"{n:05d}": the decimal digits of n, zeros in front up to five digits
HashWidth == 5

RECURSIVE Digits(_)
Digits(n) == IF n < 10 THEN <<n>> ELSE Digits(n \div 10) \o <<n % 10>>

ZeroPadded(n, width) ==
    LET d == Digits(n)
    IN  IF Len(d) >= width THEN d ELSE [i \in 1..(width - Len(d)) |-> 0] \o d

HashOfTotal(history) ==
    [prefix |-> "abc", digits |-> ZeroPadded(Len(history) + 1, HashWidth)]

\* commit.hash = f"abc{len(self.commit_history):05d}"
CommitHash(history) ==
    [prefix |-> "abc", digits |-> ZeroPadded(Len(history), HashWidth)]

CommitUngated(g) ==
    [g EXCEPT !.commit_history = Append(@, CommitHash(g.commit_history)),
              !.commits_made = @ + 1]

\* commit: the operation appended to commit_history is kept as its hash
Commit(g) ==
    IF ~g.authenticated THEN g
    ELSE [g EXCEPT !.commit_history = Append(@, CommitHash(g.commit_history)),
                   !.commits_made = @ + 1]

\* pr_result.get("pr_number"): None (0 here) when the call was refused
PrNumber(g) == IF ~g.authenticated THEN 0 ELSE FirstPrNumber + Len(g.pr_history)

CreatePullRequest(g) ==
    IF ~g.authenticated THEN g
    ELSE [g EXCEPT !.pr_history = Append(@, PrNumber(g)),
                   !.prs_created = @ + 1]

\* merge_pull_request, push_to_repository, create_release and
\* deploy_to_production build a dict and change no attribute
MergePullRequest(g) == g

PushToRepository(g) == g

CreateRelease(g) == g

DeployToProduction(g) == g

GitHubOps == {"create_branch", "commit", "create_pull_request", "merge_pull_request",
              "push_to_repository", "create_release", "deploy_to_production"}

\* return {"success": False, "error": "Not authenticated"}
GitHubRefused == [success |-> FALSE, error |-> "Not authenticated"]

\* GitHubAutomation after one of its operations
GitHubAfter(op, g) ==
    CASE op = "create_branch"        -> CreateBranch(g, "feature")
      [] op = "commit"               -> Commit(g)
      [] op = "create_pull_request"  -> CreatePullRequest(g)
      [] op = "merge_pull_request"   -> MergePullRequest(g)
      [] op = "push_to_repository"   -> PushToRepository(g)
      [] op = "create_release"       -> CreateRelease(g)
      [] op = "deploy_to_production" -> DeployToProduction(g)

\* The dict the operation returns: its type and status, the hash of a commit,
\* the number of a pull request
GitHubReturn(op, g) ==
    IF ~g.authenticated THEN GitHubRefused
    ELSE CASE op = "create_branch" -> [type |-> "create_branch", status |-> "success"]
           [] op = "commit" ->
                [type |-> "commit", status |-> "success", hash |-> CommitHash(g.commit_history)]
           [] op = "create_pull_request" ->
                [type |-> "create_pr", status |-> "open", pr_number |-> PrNumber(g)]
           [] op = "merge_pull_request"   -> [type |-> "merge_pr", status |-> "success"]
           [] op = "push_to_repository"   -> [type |-> "push", status |-> "success"]
           [] op = "create_release"       -> [type |-> "create_release", status |-> "success"]
           [] op = "deploy_to_production" -> [type |-> "deploy", status |-> "success"]

\* GitHubAutomation.authenticate called on the object itself
GitHubAuthenticate(token) ==
    /\ github' = Authenticate(github, token)
    /\ gh_ret' = [op |-> "authenticate", value |-> (token # "")]
    /\ UNCHANGED <<orchestrator_vars, call, is_authenticated, is_running, stats,
                   operation_log, error_log, consciousness_log, emotional_range,
                   bot_vars, view>>

\* One of the seven operations called on the object itself
GitHubCall(op) ==
    /\ github.commits_made + github.prs_created + github.branches_created < MaxGitOps
    /\ github' = GitHubAfter(op, github)
    /\ gh_ret' = [op |-> op, value |-> GitHubReturn(op, github)]
    /\ UNCHANGED <<orchestrator_vars, call, is_authenticated, is_running, stats,
                   operation_log, error_log, consciousness_log, emotional_range,
                   bot_vars, view>>

(***************************************************************************)
(* GitWorkflow: feature_workflow, hotfix_workflow, release_workflow        *)
(***************************************************************************)

Workflows == {"feature_workflow", "hotfix_workflow", "release_workflow"}

\* The three GitHubAutomation operations a workflow calls, in the order it
\* calls them
WorkflowSteps(workflow) ==
    CASE workflow = "feature_workflow" -> <<"create_branch", "commit", "create_pull_request">>
      [] workflow = "hotfix_workflow"  -> <<"create_branch", "commit", "create_pull_request">>
      [] workflow = "release_workflow" ->
            <<"create_branch", "create_release", "deploy_to_production">>

\* branch_name = f"feature/{...}", f"hotfix/{...}", f"release/{...}"
WorkflowBranch(workflow) ==
    CASE workflow = "feature_workflow" -> "feature"
      [] workflow = "hotfix_workflow"  -> "hotfix"
      [] workflow = "release_workflow" -> "release"

\* GitHubAutomation after one step of a workflow
StepAfter(workflow, op, g) ==
    IF op = "create_branch" THEN CreateBranch(g, WorkflowBranch(workflow))
    ELSE GitHubAfter(op, g)

\* results["status"] = "success": assigned whatever the steps returned
WorkflowStatus(steps) == "success"

\* One run of a workflow: no await in its body, so it is one step.  Each step's
\* result is appended to results["steps"]
RunWorkflow(workflow) ==
    LET ops == WorkflowSteps(workflow)
        g1  == StepAfter(workflow, ops[1], github)
        g2  == StepAfter(workflow, ops[2], g1)
        g3  == StepAfter(workflow, ops[3], g2)
        steps == <<GitHubReturn(ops[1], github), GitHubReturn(ops[2], g1),
                   GitHubReturn(ops[3], g2)>>
    IN  /\ github.branches_created < MaxWorkflows
        /\ github' = g3
        /\ gh_ret' = [op |-> workflow,
                      value |-> [steps |-> steps, status |-> WorkflowStatus(steps)]]
        /\ UNCHANGED <<orchestrator_vars, call, is_authenticated, is_running, stats,
                       operation_log, error_log, consciousness_log, emotional_range,
                       bot_vars, view>>

(***************************************************************************)
(* ConsciousnessCore.process_stimulus                                      *)
(***************************************************************************)

Min(a, b) == IF a < b THEN a ELSE b
Max(a, b) == IF a > b THEN a ELSE b

UpdateEmotionNoFloor(levels, emotion, delta) ==
    IF emotion \in DOMAIN levels
    THEN [levels EXCEPT ![emotion] = Min(100, @ + delta)]
    ELSE levels

\* Emotions.update_emotion: max(0.0, min(1.0, current + delta)), hundredths
UpdateEmotion(levels, emotion, delta) ==
    IF emotion \in DOMAIN levels
    THEN [levels EXCEPT ![emotion] = Max(0, Min(100, @ + delta))]
    ELSE levels

StimulusEmotions(levels, stimulus_type) ==
    CASE stimulus_type = "success" ->
            UpdateEmotion(UpdateEmotion(levels, "joy", 10), "pride", 15)
      [] stimulus_type = "challenge" ->
            UpdateEmotion(UpdateEmotion(levels, "curiosity", 10), "determination", 10)
      [] stimulus_type = "failure" ->
            UpdateEmotion(UpdateEmotion(levels, "frustration", 5), "determination", 10)
      [] OTHER -> levels

\* SelfAwarenessModule.reflect: one reflection appended per stimulus
Reflect(log, stimulus_type, significance) ==
    Append(log, [context |-> stimulus_type, significance |-> significance,
                 adjustments_needed |-> significance > 70])

\* The stimulus types process_stimulus tells apart
StimulusTypes == {"success", "challenge", "failure"}

\* Emotions.update_emotion called on the emotional core itself
UpdateEmotionCall(emotion, delta) ==
    /\ emotional_range' = UpdateEmotion(emotional_range, emotion, delta)
    /\ UNCHANGED <<orchestrator_vars, call, is_authenticated, is_running, stats,
                   operation_log, error_log, github, consciousness_log, bot_vars,
                   read_vars>>

\* ConsciousnessCore.process_stimulus called with a stimulus of its own
ProcessStimulus(stimulus_type) ==
    /\ Len(consciousness_log) < MaxStimuli
    /\ emotional_range' = StimulusEmotions(emotional_range, stimulus_type)
    /\ consciousness_log' = Reflect(consciousness_log, stimulus_type, 50)
    /\ UNCHANGED <<orchestrator_vars, call, is_authenticated, is_running, stats,
                   operation_log, error_log, github, bot_vars, read_vars>>

(***************************************************************************)
(* A consensus call: snapshot, fan-out, gather, aggregation                *)
(***************************************************************************)

NoOutcome == [status |-> "none"]

\* No read-side call, or no GitHubAutomation call, has returned yet
NoView == [op |-> "none"]

IdleCall ==
    [pc |-> "idle", op |-> "none", kind |-> "none", tasks |-> <<>>, got |-> <<>>,
     seen |-> {}, out |-> NoOutcome, ret |-> NoOutcome]

SnapshotWhenCalm(enabled) ==
    SelectSeq(AiSystemsOrder,
              LAMBDA p : p \in enabled /\ (emotional_range.frustration <= 10 \/ p = "grok"))

\* for provider, ai_system in self.ai_systems.items():
\*     if provider in self.enabled_systems: tasks.append(...)
Snapshot(enabled) == SelectSeq(AiSystemsOrder, LAMBDA p : p \in enabled)

GatherAllSucceeded(rec) ==
    /\ Len(rec.got) = Len(rec.tasks)
    /\ \A i \in 1..Len(rec.got) : rec.got[i].ok

GatherFirstDone(rec) == Len(rec.got) >= 1

\* responses = await asyncio.gather(*tasks): resumes when every task is done
GatherReady(rec) == Len(rec.got) = Len(rec.tasks)

GatheredStillEnabled(got) == SelectSeq(got, LAMBDA r : r.provider \in enabled_systems)

\* the list gather returns: one AIResponse per task, in task order
Gathered(got) == got

\* What the *_consensus coroutine does once the gather is over: gather was
\* called without return_exceptions, so the first exception of a task is raised
\* in the caller; otherwise the responses are aggregated.
ConsensusOutcome(kind, got) ==
    IF \E i \in 1..Len(got) : ~got[i].ok
    THEN Raised(got[CHOOSE i \in 1..Len(got) :
                        ~got[i].ok /\ \A j \in 1..(i - 1) : got[j].ok].error)
    ELSE Aggregate(kind, Gathered(got))

(***************************************************************************)
(* ManusAISystem: what an operation does after its consensus call.         *)
(* An operation record keeps, of the consensus result it refers to, the    *)
(* agreement level; timestamps and free text are left out.                 *)
(***************************************************************************)

ConsensusKind(op) ==
    CASE op = "generate_code" -> "generate_code"
      [] op = "analyze_code"  -> "analyze_code"
      [] op = "ask_question"  -> "answer_question"

ErrorType(op) ==
    CASE op = "generate_code" -> "code_generation_error"
      [] op = "analyze_code"  -> "code_analysis_error"
      [] op = "ask_question"  -> "question_error"
      [] op = "deploy"        -> "deployment_error"

NotAuthenticated == [error |-> "Not authenticated"]

CountThenRefuse(c, op) ==
    /\ call' = [call EXCEPT ![c] =
                  [IdleCall EXCEPT !.pc = "done", !.op = op, !.ret = NotAuthenticated]]
    /\ stats' = [stats EXCEPT !.total_operations = @ + 1]
    /\ UNCHANGED <<is_authenticated, is_running, operation_log, error_log, github,
                   consciousness_log, emotional_range>>

\* if not self.is_authenticated: return {"error": "Not authenticated"}
\* The first statement of the four operations, before any counter is touched
ReturnNotAuthenticated(c, op) ==
    /\ call' = [call EXCEPT ![c] =
                  [IdleCall EXCEPT !.pc = "done", !.op = op, !.ret = NotAuthenticated]]
    /\ UNCHANGED system_vars

FailedLoggedAsOperation(c, rec, out, st) ==
    /\ stats' = [st EXCEPT !.failed_operations = @ + 1]
    /\ error_log' = Append(error_log, [type |-> ErrorType(rec.op), error |-> out.error])
    /\ operation_log' = Append(operation_log, [type |-> ErrorType(rec.op), status |-> "failed"])
    /\ call' = [call EXCEPT ![c] =
                  [rec EXCEPT !.pc = "done", !.out = out, !.ret = [error |-> out.error]]]
    /\ UNCHANGED <<github, consciousness_log, emotional_range>>

\* except Exception as e: failed_operations += 1; error_log.append(...)
OperationFailed(c, rec, out, st) ==
    /\ stats' = [st EXCEPT !.failed_operations = @ + 1]
    /\ error_log' = Append(error_log, [type |-> ErrorType(rec.op), error |-> out.error])
    /\ call' = [call EXCEPT ![c] =
                  [rec EXCEPT !.pc = "done", !.out = out, !.ret = [error |-> out.error]]]
    /\ UNCHANGED <<operation_log, github, consciousness_log, emotional_range>>

LogPrepend(log, entry) == <<entry>> \o log

LogOverwriteLast(log, entry) ==
    IF log = <<>> THEN <<entry>> ELSE [log EXCEPT ![Len(log)] = entry]

\* self.operation_log.append(operation)
LogAppend(log, entry) == Append(log, entry)

\* generate_code after the consensus: branch, commit, pull request, stimulus,
\* operation record, counters
GenerateCodeSucceeded(c, rec, out, st) ==
    LET g1 == CreateBranch(github, "feature")
        g2 == Commit(g1)
        g3 == CreatePullRequest(g2)
        operation == [type |-> "code_generation", pr_number |-> PrNumber(g2),
                      status |-> "success",
                      ai_consensus |-> out.result.consensus.agreement_level]
    IN  /\ github' = g3
        /\ emotional_range' = StimulusEmotions(emotional_range, "code_generation")
        /\ consciousness_log' = Reflect(consciousness_log, "code_generation", 80)
        /\ operation_log' = LogAppend(operation_log, operation)
        /\ stats' = [st EXCEPT !.successful_operations = @ + 1,
                               !.code_files_generated = @ + 1,
                               !.commits_made = @ + 1,
                               !.prs_created = @ + 1]
        /\ call' = [call EXCEPT ![c] =
                      [rec EXCEPT !.pc = "done", !.out = out, !.ret = operation]]
        /\ UNCHANGED error_log

AnalyzeCodeSucceeded(c, rec, out, st) ==
    LET operation == [type |-> "code_analysis", status |-> "success",
                      analysis |-> out.result.consensus.agreement_level]
    IN  /\ emotional_range' = StimulusEmotions(emotional_range, "code_analysis")
        /\ consciousness_log' = Reflect(consciousness_log, "code_analysis", 60)
        /\ operation_log' = LogAppend(operation_log, operation)
        /\ stats' = [st EXCEPT !.successful_operations = @ + 1]
        /\ call' = [call EXCEPT ![c] =
                      [rec EXCEPT !.pc = "done", !.out = out, !.ret = operation]]
        /\ UNCHANGED <<error_log, github>>

AskQuestionSucceeded(c, rec, out, st) ==
    LET operation == [type |-> "question_answering", status |-> "success",
                      answer |-> out.result.consensus.agreement_level]
    IN  /\ emotional_range' = StimulusEmotions(emotional_range, "question")
        /\ consciousness_log' = Reflect(consciousness_log, "question", 70)
        /\ operation_log' = LogAppend(operation_log, operation)
        /\ stats' = [st EXCEPT !.successful_operations = @ + 1]
        /\ call' = [call EXCEPT ![c] =
                      [rec EXCEPT !.pc = "done", !.out = out, !.ret = operation]]
        /\ UNCHANGED <<error_log, github>>

\* The rest of the calling coroutine once its consensus call returned or raised
\* `out`; `st` is stats as the operation left it before the call.  A direct
\* caller of the orchestrator gets `out` itself.
Resume(c, rec, out, st) ==
    IF rec.op = "consensus"
    THEN /\ call' = [call EXCEPT ![c] = [rec EXCEPT !.pc = "done", !.out = out, !.ret = out]]
         /\ UNCHANGED system_vars
    ELSE /\ UNCHANGED <<is_authenticated, is_running>>
         /\ IF out.status = "raised" THEN OperationFailed(c, rec, out, st)
            ELSE CASE rec.op = "generate_code" -> GenerateCodeSucceeded(c, rec, out, st)
                   [] rec.op = "analyze_code"  -> AnalyzeCodeSucceeded(c, rec, out, st)
                   [] rec.op = "ask_question"  -> AskQuestionSucceeded(c, rec, out, st)

\* The *_consensus coroutine from its first line to the gather.  gather() of no
\* task is already done, so with nothing enabled the coroutine does not suspend
\* and runs on to its end at once.
BeginConsensus(c, op, kind, st) ==
    LET tasks == Snapshot(enabled_systems)
        rec   == [IdleCall EXCEPT !.op = op, !.kind = kind, !.tasks = tasks,
                                  !.seen = enabled_systems]
    IN  IF tasks = <<>>
        THEN Resume(c, rec, ConsensusOutcome(kind, <<>>), st)
        ELSE /\ call' = [call EXCEPT ![c] = [rec EXCEPT !.pc = "gather"]]
             /\ stats' = st
             /\ UNCHANGED <<is_authenticated, is_running, operation_log, error_log,
                            github, consciousness_log, emotional_range>>

(***************************************************************************)
(* Actions                                                                 *)
(***************************************************************************)

\* A caller invokes generate_code_consensus, analyze_code_consensus or
\* answer_question_consensus on the orchestrator itself
Consensus(c, kind) ==
    /\ call[c].pc = "idle"
    /\ BeginConsensus(c, "consensus", kind, stats)
    /\ UNCHANGED <<orchestrator_vars, bot_vars, read_vars>>

\* ManusAISystem.generate_code / analyze_code / ask_question up to the gather
Operation(c, op) ==
    /\ call[c].pc = "idle"
    /\ IF ~is_authenticated
       THEN ReturnNotAuthenticated(c, op)
       ELSE /\ stats.total_operations < MaxOps
            /\ BeginConsensus(c, op, ConsensusKind(op),
                              [stats EXCEPT !.total_operations = @ + 1])
    /\ UNCHANGED <<orchestrator_vars, bot_vars, read_vars>>

\* One provider task runs: tasks run in the order gather created them
TaskStep(c) ==
    /\ call[c].pc = "gather"
    /\ Len(call[c].got) < Len(call[c].tasks)
    /\ call' = [call EXCEPT ![c].got =
                  Append(@, ProviderCall(call[c].kind, call[c].tasks[Len(call[c].got) + 1]))]
    /\ UNCHANGED <<orchestrator_vars, system_vars, bot_vars, read_vars>>

\* The gather is over and the coroutine runs to its end
Join(c) ==
    /\ call[c].pc = "gather"
    /\ GatherReady(call[c])
    /\ Resume(c, call[c], ConsensusOutcome(call[c].kind, call[c].got), stats)
    /\ UNCHANGED <<orchestrator_vars, bot_vars, read_vars>>

CancelNone(rec) == rec.got

\* The gather future is cancelled: it cancels every task that has not ended, and
\* is itself done, cancelled, once they all are
CancelOutstanding(rec) ==
    rec.got \o [i \in 1..(Len(rec.tasks) - Len(rec.got)) |->
                  [ok |-> FALSE, provider |-> rec.tasks[Len(rec.got) + i],
                   confidence |-> 0, error |-> "CancelledError"]]

\* The caller cancels the task that runs the call while it waits in the gather.
\* CancelledError is raised at the await; it is not an Exception, so the
\* except clause of a ManusAISystem operation lets it through to the caller.
Cancel(c) ==
    /\ call[c].pc = "gather"
    /\ call' = [call EXCEPT ![c] =
                  [call[c] EXCEPT !.pc = "done", !.got = CancelOutstanding(call[c]),
                                  !.out = Raised("CancelledError"),
                                  !.ret = Raised("CancelledError")]]
    /\ UNCHANGED <<orchestrator_vars, system_vars, bot_vars, read_vars>>

\* The caller takes the returned value and may call again
Collect(c) ==
    /\ call[c].pc = "done"
    /\ call' = [call EXCEPT ![c] = IdleCall]
    /\ UNCHANGED <<orchestrator_vars, system_vars, bot_vars, read_vars>>

\* ManusAISystem.initialize
Initialize(token) ==
    /\ Len(operation_log) < MaxOps
    /\ github' = Authenticate(github, token)
    /\ is_authenticated' = TRUE
    /\ enabled_systems' = enabled_systems \cup Registered
    /\ reg_ret' = [op |-> "enable_ai", provider |-> "grok",
                   was |-> "grok" \in enabled_systems, ret |-> TRUE]
    /\ is_running' = TRUE
    /\ operation_log' = LogAppend(operation_log, [type |-> "initialization", status |-> "success"])
    /\ UNCHANGED <<confidence, raising, call, stats, error_log, consciousness_log,
                   emotional_range, bot_vars, read_vars>>

\* ManusAISystem.deploy: no await, so the whole operation is one step
Deploy(c) ==
    /\ call[c].pc = "idle"
    /\ IF ~is_authenticated
       THEN ReturnNotAuthenticated(c, "deploy")
       ELSE /\ stats.total_operations < MaxOps
            /\ LET operation == [type |-> "deployment", status |-> "success"]
               IN  /\ emotional_range' = StimulusEmotions(emotional_range, "deployment")
                   /\ consciousness_log' = Reflect(consciousness_log, "deployment", 90)
                   /\ operation_log' = LogAppend(operation_log, operation)
                   /\ stats' = [stats EXCEPT !.total_operations = @ + 1,
                                             !.successful_operations = @ + 1,
                                             !.deployments = @ + 1]
                   /\ call' = [call EXCEPT ![c] =
                                 [IdleCall EXCEPT !.pc = "done", !.op = "deploy",
                                                  !.ret = operation]]
            /\ UNCHANGED <<is_authenticated, is_running, error_log, github>>
    /\ UNCHANGED <<orchestrator_vars, bot_vars, read_vars>>

\* ManusAIBot.cmd_ai, the "!manus ai <action> <system>" chat command; a missing
\* word is "" (no action: the usage message) or "none" (no system)
CmdAi(action, system) ==
    /\ IF action = "" THEN
           /\ bot_reply' = "Usage"
           /\ UNCHANGED bot_ai_systems
       ELSE IF action = "status" THEN
           /\ bot_reply' = "Connected AI Systems"
           /\ UNCHANGED bot_ai_systems
       ELSE IF action = "enable" /\ system # "none" THEN
           IF system \in DOMAIN bot_ai_systems
           THEN /\ bot_ai_systems' = [bot_ai_systems EXCEPT ![system] = TRUE]
                /\ bot_reply' = "enabled"
           ELSE /\ bot_reply' = "Unknown system"
                /\ UNCHANGED bot_ai_systems
       ELSE IF action = "disable" /\ system # "none" THEN
           IF system \in DOMAIN bot_ai_systems
           THEN /\ bot_ai_systems' = [bot_ai_systems EXCEPT ![system] = FALSE]
                /\ bot_reply' = "disabled"
           ELSE /\ bot_reply' = "Unknown system"
                /\ UNCHANGED bot_ai_systems
       ELSE
           /\ bot_reply' = "Unknown action"
           /\ UNCHANGED bot_ai_systems
    /\ UNCHANGED <<orchestrator_vars, call, system_vars, read_vars>>

(***************************************************************************)
(* Read side: get_status, get_commit_history, get_pr_history               *)
(***************************************************************************)

\* s[-n:] for n >= 0.  Python reads -0 as 0, so s[-0:] is s[0:], the whole list
SliceLast(s, n) ==
    IF n = 0 \/ n >= Len(s) THEN s ELSE SubSeq(s, Len(s) - n + 1, Len(s))

\* The keys of Emotions.emotional_range, in insertion order
EmotionOrder == <<"joy", "curiosity", "determination", "frustration", "pride", "love">>

\* Emotions.get_dominant_emotion: max() keeps the first of the strongest
DominantEmotion(levels) ==
    EmotionOrder[CHOOSE i \in 1..Len(EmotionOrder) :
                    /\ \A j \in 1..Len(EmotionOrder) :
                          levels[EmotionOrder[j]] <= levels[EmotionOrder[i]]
                    /\ \A j \in 1..(i - 1) :
                          levels[EmotionOrder[j]] < levels[EmotionOrder[i]]]

\* MultiAIOrchestrator.get_status
OrchestratorStatusCountsAll ==
    [enabled_systems |-> enabled_systems,
     total_systems   |-> Len(AIProvider),
     active_systems  |-> Cardinality(enabled_systems)]

OrchestratorStatus ==
    [enabled_systems |-> enabled_systems,
     total_systems   |-> Len(AiSystemsOrder),
     active_systems  |-> Cardinality(enabled_systems)]

\* GitHubAutomation.get_status
GitHubStatus ==
    [authenticated    |-> github.authenticated,
     commits_made     |-> github.commits_made,
     prs_created      |-> github.prs_created,
     branches_created |-> github.branches_created,
     recent_commits   |-> SliceLast(github.commit_history, RecentCommits),
     recent_prs       |-> SliceLast(github.pr_history, RecentCommits)]

\* ConsciousnessCore.get_status
ConsciousnessStatus ==
    [emotional_state  |-> emotional_range,
     dominant_emotion |-> DominantEmotion(emotional_range)]

\* ManusAISystem.get_status
SystemStatus ==
    [is_running        |-> is_running,
     is_authenticated  |-> is_authenticated,
     consciousness     |-> ConsciousnessStatus,
     github            |-> GitHubStatus,
     ai_orchestrator   |-> OrchestratorStatus,
     stats             |-> stats,
     recent_operations |-> SliceLast(operation_log, RecentOperations),
     recent_errors     |-> SliceLast(error_log, RecentErrors)]

StatusOf(object) ==
    CASE object = "system"        -> SystemStatus
      [] object = "ai_orchestrator" -> OrchestratorStatus
      [] object = "github"        -> GitHubStatus
      [] object = "consciousness" -> ConsciousnessStatus

StatusObjects == {"system", "ai_orchestrator", "github", "consciousness"}

LogPrunedByStatus(log) == SliceLast(log, RecentOperations)

\* The operation log once get_status has read it: the slice is a new list and
\* nothing is assigned to self.operation_log
LogAfterStatus(log) == log

\* get_status of one of the four objects
GetStatus(object) ==
    /\ view' = [op |-> "get_status", object |-> object, value |-> StatusOf(object)]
    /\ operation_log' = LogAfterStatus(operation_log)
    /\ UNCHANGED <<orchestrator_vars, call, is_authenticated, is_running, stats,
                   error_log, github, consciousness_log, emotional_range, bot_vars,
                   gh_ret>>

\* GitHubAutomation.get_commit_history(limit)
GetCommitHistory(limit) ==
    /\ view' = [op |-> "get_commit_history", limit |-> limit,
                value |-> SliceLast(github.commit_history, limit)]
    /\ UNCHANGED <<orchestrator_vars, call, system_vars, bot_vars, gh_ret>>

\* GitHubAutomation.get_pr_history(limit)
GetPrHistory(limit) ==
    /\ view' = [op |-> "get_pr_history", limit |-> limit,
                value |-> SliceLast(github.pr_history, limit)]
    /\ UNCHANGED <<orchestrator_vars, call, system_vars, bot_vars, gh_ret>>

\* The caller has used the value the read returned
ReadDone ==
    /\ view # NoView
    /\ view' = NoView
    /\ UNCHANGED <<orchestrator_vars, call, system_vars, bot_vars, gh_ret>>

(***************************************************************************)
(* EthicalFramework.evaluate_action                                        *)
(***************************************************************************)

\* The keys of foundational_principles, in insertion order
PrincipleOrder ==
    <<"nonmaleficence", "beneficence", "autonomy", "justice", "veracity", "fidelity",
      "gratitude", "courage", "compassion", "humility">>

\* foundational_principles[p]["weight"], in hundredths
PrincipleWeight ==
    [nonmaleficence |-> 100, beneficence |-> 95, autonomy |-> 95, justice |-> 90,
     veracity |-> 95, fidelity |-> 90, gratitude |-> 75, courage |-> 80,
     compassion |-> 85, humility |-> 90]

\* total_weight = sum(p["weight"] for p in self.foundational_principles.values())
RECURSIVE SumWeights(_)
SumWeights(names) ==
    IF names = <<>> THEN 0 ELSE PrincipleWeight[Head(names)] + SumWeights(Tail(names))

TotalWeight == SumWeights(PrincipleOrder)

\* violation_weight: the weight of every element of the list that is a key of
\* foundational_principles, an element listed twice counted twice
ViolationWeight(violated_principles) ==
    SumWeights(SelectSeq(violated_principles, LAMBDA p : p \in DOMAIN PrincipleWeight))

\* 1.0 - (violation_weight / total_weight), kept as the exact fraction
\* num / den; `given` is false when violated_principles is None
EvaluateActionScore(given, violated_principles) ==
    IF ~given THEN [num |-> 1, den |-> 1]
    ELSE [num |-> TotalWeight - ViolationWeight(violated_principles), den |-> TotalWeight]

\* The principles of a set, listed in the order of the table
Listing(S) == SelectSeq(PrincipleOrder, LAMBDA p : p \in S)

\* The names a caller may add to the list: the ten principles and a name that
\* is not one
NamePool == Range(PrincipleOrder) \cup {"obedience"}

RECURSIVE SeqsUpTo(_, _)
SeqsUpTo(S, n) ==
    IF n = 0 THEN {<<>>}
    ELSE LET shorter == SeqsUpTo(S, n - 1)
         IN  shorter \cup {Append(s, x) : s \in shorter, x \in S}

\* evaluate_action(description, violated_principles)
EvaluateAction(given, violated_principles) ==
    /\ view = NoView
    /\ view' = [op |-> "evaluate_action", given |-> given,
                violated_principles |-> violated_principles,
                value |-> EvaluateActionScore(given, violated_principles)]
    /\ UNCHANGED <<orchestrator_vars, call, system_vars, bot_vars, gh_ret>>

(***************************************************************************)
(* Initial states                                                          *)
(***************************************************************************)

InitSystem ==
    /\ is_authenticated = FALSE
    /\ is_running = FALSE
    /\ stats = [total_operations |-> 0, successful_operations |-> 0,
                failed_operations |-> 0, code_files_generated |-> 0,
                commits_made |-> 0, prs_created |-> 0, deployments |-> 0]
    /\ operation_log = <<>>
    /\ error_log = <<>>
    /\ github = [authenticated |-> FALSE, commits_made |-> 0, prs_created |-> 0,
                 branches_created |-> 0, commit_history |-> <<>>, pr_history |-> <<>>,
                 branch_history |-> <<>>]
    /\ consciousness_log = <<>>
    /\ emotional_range = [joy |-> 70, curiosity |-> 95, determination |-> 85,
                          frustration |-> 10, pride |-> 60, love |-> 75]
    /\ bot_ai_systems = [n \in Registered |-> FALSE]
    /\ bot_reply = "none"
    /\ view = NoView
    /\ gh_ret = NoView

\* The objects as their constructors leave them
Init ==
    /\ confidence = ShippedConfidence
    /\ raising = {}
    /\ enabled_systems = Registered
    /\ reg_ret = NoRegistryCall
    /\ call = [c \in Callers |-> IdleCall]
    /\ InitSystem

\* An orchestrator whose integrations answer with a configured confidence (the
\* same for the three operations), with any set of them enabled
InitAgg ==
    /\ enabled_systems \in SUBSET Registered
    /\ \E t \in [Registered -> ConfLevels] :
          /\ \A p \in Registered \ enabled_systems : t[p] = 50
          /\ confidence = [k \in Kinds |-> t]
    /\ raising = {}
    /\ reg_ret = NoRegistryCall
    /\ call = [c \in Callers |-> IdleCall]
    /\ InitSystem

\* An orchestrator some of whose integrations raise, with any set enabled
InitFault ==
    /\ confidence = ShippedConfidence
    /\ raising \in SUBSET Registered
    /\ enabled_systems \in SUBSET Registered
    /\ reg_ret = NoRegistryCall
    /\ call = [c \in Callers |-> IdleCall]
    /\ InitSystem

\* ManusAISystem after initialize(token) and n calls of generate_code, each
\* answered by the five shipped providers
InitStatus ==
    \E n \in 0..MaxHistory :
        /\ confidence = ShippedConfidence
        /\ raising = {}
        /\ enabled_systems = Registered
        /\ reg_ret = [op |-> "enable_ai", provider |-> "grok", was |-> TRUE, ret |-> TRUE]
        /\ call = [c \in Callers |-> IdleCall]
        /\ is_authenticated = TRUE
        /\ is_running = TRUE
        /\ stats = [total_operations |-> n, successful_operations |-> n,
                    failed_operations |-> 0, code_files_generated |-> n,
                    commits_made |-> n, prs_created |-> n, deployments |-> 0]
        /\ operation_log =
              <<[type |-> "initialization", status |-> "success"]>> \o
              [i \in 1..n |-> [type |-> "code_generation",
                               pr_number |-> FirstPrNumber + i - 1,
                               status |-> "success", ai_consensus |-> "high"]]
        /\ error_log = <<>>
        /\ github = [authenticated |-> TRUE, commits_made |-> n, prs_created |-> n,
                     branches_created |-> n,
                     commit_history |->
                        [i \in 1..n |->
                            [prefix |-> "abc", digits |-> ZeroPadded(i - 1, HashWidth)]],
                     pr_history |-> [i \in 1..n |-> FirstPrNumber + i - 1],
                     branch_history |-> [i \in 1..n |-> "feature"]]
        /\ consciousness_log =
              [i \in 1..n |-> [context |-> "code_generation", significance |-> 80,
                               adjustments_needed |-> TRUE]]
        /\ emotional_range = [joy |-> 70, curiosity |-> 95, determination |-> 85,
                              frustration |-> 10, pride |-> 60, love |-> 75]
        /\ bot_ai_systems = [p \in Registered |-> FALSE]
        /\ bot_reply = "none"
        /\ view = NoView
        /\ gh_ret = NoView

(***************************************************************************)
(* Specifications                                                          *)
(***************************************************************************)

\* One caller of the orchestrator, the registry changed at any moment
Next ==
    \/ \E p \in Range(AIProvider) : EnableAI(p)
    \/ \E p \in Range(AIProvider) : DisableAI(p)
    \/ \E k \in Kinds : Consensus("a", k)
    \/ TaskStep("a")
    \/ Join("a")
    \/ Collect("a")

Spec == Init /\ [][Next]_vars

\* Two callers whose calls overlap, the registry changed at any moment
NextConc ==
    \/ \E p \in TogglePool : EnableAI(p)
    \/ \E p \in TogglePool : DisableAI(p)
    \/ \E c \in Callers, k \in Kinds : Consensus(c, k)
    \/ \E c \in Callers : TaskStep(c)
    \/ \E c \in Callers : Join(c)
    \/ \E c \in Callers : Collect(c)

SpecConc == Init /\ [][NextConc]_vars

\* One consensus call at a time on a fixed registry
NextCall ==
    \/ \E k \in Kinds : Consensus("a", k)
    \/ TaskStep("a")
    \/ Join("a")
    \/ Collect("a")

SpecAgg == InitAgg /\ [][NextCall]_vars

SpecFault == InitFault /\ [][NextCall]_vars

\* ManusAISystem driven by one sequential caller, who changes the registry
\* between two operations
NextSystem ==
    \/ \E token \in Tokens : Initialize(token)
    \/ \E op \in {"generate_code", "analyze_code", "ask_question"} : Operation("a", op)
    \/ Deploy("a")
    \/ TaskStep("a")
    \/ Join("a")
    \/ Collect("a")
    \/ \E p \in Range(AIProvider) : call["a"].pc = "idle" /\ EnableAI(p)
    \/ \E p \in Range(AIProvider) : call["a"].pc = "idle" /\ DisableAI(p)

SpecSystem == Init /\ [][NextSystem]_vars

\* ManusAISystem driven by one sequential caller who disables providers between
\* two operations; initialize enables them all again
NextTrace ==
    \/ \E token \in Tokens : Initialize(token)
    \/ \E op \in {"generate_code", "analyze_code", "ask_question"} : Operation("a", op)
    \/ Deploy("a")
    \/ TaskStep("a")
    \/ Join("a")
    \/ Collect("a")
    \/ \E p \in Registered : call["a"].pc = "idle" /\ DisableAI(p)

SpecTrace == Init /\ [][NextTrace]_vars

\* ManusAISystem driven by one caller who may cancel the operation in flight
NextCancel ==
    \/ \E token \in Tokens : Initialize(token)
    \/ \E op \in {"generate_code", "analyze_code", "ask_question"} : Operation("a", op)
    \/ TaskStep("a")
    \/ Join("a")
    \/ Cancel("a")
    \/ Collect("a")
    \/ \E p \in TogglePool : call["a"].pc = "idle" /\ EnableAI(p)
    \/ \E p \in TogglePool : call["a"].pc = "idle" /\ DisableAI(p)

SpecCancel == Init /\ [][NextCancel]_vars

\* ManusAISystem and its read side: one sequential caller who reads a status or
\* a history and uses it before the next change
NextStatus ==
    \/ \E object \in StatusObjects : GetStatus(object)
    \/ \E limit \in 0..MaxLimit : GetCommitHistory(limit)
    \/ \E limit \in 0..MaxLimit : GetPrHistory(limit)
    \/ ReadDone
    \/ view = NoView /\ \E token \in Tokens : Initialize(token)
    \/ view = NoView /\ \E op \in {"generate_code", "analyze_code", "ask_question"} :
                            Operation("a", op)
    \/ view = NoView /\ Deploy("a")
    \/ view = NoView /\ TaskStep("a")
    \/ view = NoView /\ Join("a")
    \/ view = NoView /\ Collect("a")
    \/ view = NoView /\ call["a"].pc = "idle" /\ \E p \in TogglePool : EnableAI(p)
    \/ view = NoView /\ call["a"].pc = "idle" /\ \E p \in TogglePool : DisableAI(p)

SpecStatus == InitStatus /\ [][NextStatus]_vars

\* ManusAISystem with two callers whose operations overlap
NextOverlap ==
    \/ \E token \in Tokens : Initialize(token)
    \/ \E c \in Callers, op \in {"generate_code", "analyze_code", "ask_question"} :
          Operation(c, op)
    \/ \E c \in Callers : Deploy(c)
    \/ \E c \in Callers : TaskStep(c)
    \/ \E c \in Callers : Join(c)
    \/ \E c \in Callers : Collect(c)

SpecOverlap == Init /\ [][NextOverlap]_vars

\* GitHubAutomation used on its own
NextGitHub ==
    \/ \E token \in Tokens : GitHubAuthenticate(token)
    \/ \E op \in GitHubOps : GitHubCall(op)

SpecGitHub == Init /\ [][NextGitHub]_vars

\* GitWorkflow and the GitHubAutomation it drives
NextWorkflow ==
    \/ \E token \in Tokens : GitHubAuthenticate(token)
    \/ \E op \in GitHubOps : GitHubCall(op)
    \/ \E workflow \in Workflows : RunWorkflow(workflow)

SpecWorkflow == Init /\ [][NextWorkflow]_vars

\* EthicalFramework.evaluate_action called with no list, or with a list made of
\* any set of principles followed by up to MaxExtra names
NextEthics ==
    \/ EvaluateAction(FALSE, <<>>)
    \/ \E S \in SUBSET Range(PrincipleOrder), extra \in SeqsUpTo(NamePool, MaxExtra) :
          EvaluateAction(TRUE, Listing(S) \o extra)
    \/ ReadDone

SpecEthics == Init /\ [][NextEthics]_vars

\* The emotion names passed to update_emotion: two emotions and a name that is
\* not one; the deltas, in hundredths, two of them beyond the whole range
EmotionPool == {"joy", "frustration", "serenity"}
Deltas == {-120, -10, 15, 120}

\* The stimulus types given: the three process_stimulus tells apart, one the
\* system gives ("deployment"), and the default of a stimulus without a type
AnyStimulusTypes == StimulusTypes \cup {"deployment", "unknown"}

\* The consciousness core on its own: update_emotion and process_stimulus
NextEmotion ==
    \/ \E emotion \in EmotionPool, delta \in Deltas : UpdateEmotionCall(emotion, delta)
    \/ \E stimulus_type \in AnyStimulusTypes : ProcessStimulus(stimulus_type)

SpecEmotion == Init /\ [][NextEmotion]_vars

\* The provider enabled and disabled while the consciousness core is stimulated
PersonaPool == {"claude"}

\* ManusAISystem and its orchestrator, while the consciousness core receives
\* stimuli of its own
NextPersona ==
    \/ \E stimulus_type \in StimulusTypes : ProcessStimulus(stimulus_type)
    \/ \E token \in Tokens : Initialize(token)
    \/ \E op \in {"generate_code", "analyze_code", "ask_question"} : Operation("a", op)
    \/ TaskStep("a")
    \/ Join("a")
    \/ Collect("a")
    \/ \E p \in PersonaPool : call["a"].pc = "idle" /\ EnableAI(p)
    \/ \E p \in PersonaPool : call["a"].pc = "idle" /\ DisableAI(p)

SpecPersona == Init /\ [][NextPersona]_vars

\* The two registries alone: the orchestrator's and the chat bot's
BotActions == {"", "status", "enable", "disable", "restart"}
BotSystems == Registered \cup {"manus", "none"}

NextRegistry ==
    \/ \E p \in Range(AIProvider) : EnableAI(p)
    \/ \E p \in Range(AIProvider) : DisableAI(p)
    \/ \E action \in BotActions, system \in BotSystems : CmdAi(action, system)

SpecRegistry == Init /\ [][NextRegistry]_vars

\* One consensus call at a time, on an event loop that runs every task that is
\* ready: an integration's coroutine has no await, so a provider task that is
\* scheduled runs to its end, and a coroutine whose gather is done is resumed
SpecLive ==
    /\ InitFault
    /\ [][NextCall]_vars
    /\ WF_vars(TaskStep("a"))
    /\ WF_vars(Join("a"))

(***************************************************************************)
(* Properties                                                              *)
(***************************************************************************)

\* Position of a provider in the AIProvider enumeration
EnumIndex(p) == CHOOSE i \in 1..Len(AIProvider) : AIProvider[i] = p

RECURSIVE SumOver(_, _)
SumOver(table, providers) ==
    IF providers = {} THEN 0
    ELSE LET p == CHOOSE q \in providers : TRUE
         IN  table[p] + SumOver(table, providers \ {p})

ProvidersOf(responses) == {responses[i].provider : i \in 1..Len(responses)}

HasReturned(rec) == rec.pc = "done" /\ rec.out.status = "returned"

\* The best response of a result is the first of the providers of `among`, in
\* enumeration order, whose confidence is the highest of `among`
IsEarliestMax(best, kind, among) ==
    /\ best.provider \in among
    /\ best.confidence = confidence[kind][best.provider]
    /\ \A p \in among :
          /\ confidence[kind][p] <= best.confidence
          /\ confidence[kind][p] = best.confidence
                => EnumIndex(best.provider) <= EnumIndex(p)

\* C1: the result of every request kind contains a best response,
\* whose confidence is the maximum of the successful responses, ties going to
\* the earliest provider of the enumeration.
C1_BestOfEveryKind ==
    \A c \in Callers :
        HasReturned(call[c]) =>
            /\ "best_response" \in DOMAIN call[c].out.result
            /\ IsEarliestMax(call[c].out.result.best_response, call[c].kind,
                             Range(call[c].tasks))

\* What the code does for C1: the result of generate_code contains a best
\* response, whose confidence is the maximum of the responses, ties going to
\* the earliest provider of the enumeration; the results of analyze_code and
\* of answer_question contain no best response.
BestOfGenerateCodeOnly ==
    \A c \in Callers :
        HasReturned(call[c]) =>
            IF call[c].kind = "generate_code"
            THEN /\ "best_response" \in DOMAIN call[c].out.result
                 /\ IsEarliestMax(call[c].out.result.best_response, call[c].kind,
                                  Range(call[c].tasks))
            ELSE "best_response" \notin DOMAIN call[c].out.result

\* A generate_code result in which two providers share the highest confidence
\* and the best response is not the last of them
TiedBestReached ==
    \E c \in Callers :
        /\ HasReturned(call[c])
        /\ call[c].kind = "generate_code"
        /\ \E p \in Range(call[c].tasks) :
              /\ p # call[c].out.result.best_response.provider
              /\ confidence[call[c].kind][p] = call[c].out.result.best_response.confidence
              /\ EnumIndex(p) > EnumIndex(call[c].out.result.best_response.provider)

\* The label the thresholds give to the mean sum / count
LabelOf(avg) ==
    IF avg.sum > HighThreshold * avg.count THEN "high"
    ELSE IF avg.sum > MediumThreshold * avg.count THEN "medium"
    ELSE "low"

\* C2: for every request kind the agreement label is "high" iff the mean is
\* above 0.85, "medium" iff it is above 0.75 and at most 0.85, "low" otherwise.
C2_AgreementLabel ==
    \A c \in Callers :
        HasReturned(call[c]) =>
            LET consensus == call[c].out.result.consensus
                mean == [sum |-> SumOver(confidence[call[c].kind], Range(call[c].tasks)),
                         count |-> Len(call[c].tasks)]
            IN  consensus.agreement_level = LabelOf(mean)

\* C3: when some but not all of the enabled providers fail, the call does not
\* fail: it returns a result built from the successes, the failed providers
\* left out; the call fails only when no provider succeeds.
C3_PartialFailureTolerated ==
    \A c \in Callers :
        call[c].pc = "done" =>
            LET successes == SelectSeq(call[c].got, LAMBDA r : r.ok)
            IN  /\ successes # <<>> =>
                      /\ call[c].out.status = "returned"
                      /\ ProvidersOf(call[c].out.result.responses) = ProvidersOf(successes)
                /\ call[c].out.status = "raised" => successes = <<>>

\* The providers that answered a call: enabled when it started and not raising
Successes(rec) == {p \in rec.seen : p \notin raising}

\* C4: the mean confidence of a result is the arithmetic mean of the confidences
\* of exactly the providers that answered: sum and divisor leave out the
\* disabled and the failed ones.
C4_MeanOfSuccesses ==
    \A c \in Callers :
        HasReturned(call[c]) =>
            LET avg == call[c].out.result.consensus.average_confidence
            IN  /\ avg.count = Cardinality(Successes(call[c]))
                /\ avg.sum = SumOver(confidence[call[c].kind], Successes(call[c]))

\* A result over two or more providers while another provider, one whose
\* integration raises, is disabled
C4_Witness ==
    \E c \in Callers :
        /\ HasReturned(call[c])
        /\ Len(call[c].out.result.responses) >= 2
        /\ raising \ call[c].seen # {}

IsDispatch(rec) == rec.op \in {"generate_code", "analyze_code", "ask_question"}

\* C5: with every provider disabled, a dispatch fails with NoProvidersAvailable,
\* invokes no provider, is told apart from a result, and leaves no record in
\* the operation log.
C5_NoProvidersAvailable ==
    \A c \in Callers :
        (call[c].pc = "done" /\ IsDispatch(call[c]) /\ call[c].ret # NotAuthenticated
            /\ call[c].seen = {}) =>
            /\ call[c].out = Raised("NoProvidersAvailable")
            /\ call[c].got = <<>>
            /\ call[c].ret \notin Range(operation_log)

\* What is true of a dispatch made with nothing enabled: it ends at once in an
\* error, no provider task is created or run, and the step appends nothing to
\* the operation log (the error goes to the error log).
NothingEnabledDispatch ==
    [][\A c \in Callers :
          (call[c].pc = "idle" /\ call'[c].pc = "done" /\ IsDispatch(call'[c])
              /\ call'[c].ret # NotAuthenticated /\ call'[c].seen = {}) =>
              /\ call'[c].out.status = "raised"
              /\ call'[c].tasks = <<>> /\ call'[c].got = <<>>
              /\ call'[c].ret = [error |-> call'[c].out.error]
              /\ operation_log' = operation_log
              /\ Len(error_log') = Len(error_log) + 1]_vars

\* C6: the responses of a result are those of exactly the providers enabled
\* when the dispatch started, and once the result is built no enable_ai or
\* disable_ai changes its responses, best response or consensus.
C6_ResultFixedAtDispatch ==
    [][\A c \in Callers :
          HasReturned(call'[c]) =>
              /\ ProvidersOf(call'[c].out.result.responses) = call'[c].seen
              /\ HasReturned(call[c]) => call'[c].out = call[c].out]_vars

\* A built result whose providers are no longer the enabled ones: one of them
\* has been disabled since the dispatch and another provider enabled
C6_Witness ==
    \E c \in Callers :
        /\ HasReturned(call[c])
        /\ call[c].seen \ enabled_systems # {}
        /\ enabled_systems \ call[c].seen # {}
        /\ reg_ret.op \in {"enable_ai", "disable_ai"}

\* C7: whatever the interleaving of dispatches with enable_ai and disable_ai,
\* a result is built on one enabled set: the providers of its responses, those
\* its mean is taken over and those its best response is chosen among are the
\* same set, the one enabled when the dispatch started.
C7_OneConsistentSnapshot ==
    \A c \in Callers :
        HasReturned(call[c]) =>
            LET result == call[c].out.result
                avg    == result.consensus.average_confidence
            IN  /\ ProvidersOf(result.responses) = call[c].seen
                /\ avg.count = Cardinality(call[c].seen)
                /\ avg.sum = SumOver(confidence[call[c].kind], call[c].seen)
                /\ "best_response" \in DOMAIN result =>
                      IsEarliestMax(result.best_response, call[c].kind, call[c].seen)

\* Two overlapping calls that started on different enabled sets, one already
\* returned, the other in its gather, a provider of the first disabled since
C7_Witness ==
    \E c, d \in Callers :
        /\ HasReturned(call[c])
        /\ call[d].pc = "gather"
        /\ call[c].seen # call[d].seen
        /\ call[c].seen \ enabled_systems # {}
        /\ "best_response" \in DOMAIN call[c].out.result

\* C8: enabling a provider that is not in the registry reports a failure to the
\* caller (enable_ai returns False, the chat command answers "Unknown system")
\* and leaves the enabled set as it was.
C8_UnknownProviderRefused ==
    [][/\ \A p \in Range(AIProvider) \ Registered :
             EnableAI(p) => /\ reg_ret'.ret = FALSE
                            /\ enabled_systems' = enabled_systems
       /\ \A system \in BotSystems \ (Registered \cup {"none"}) :
             CmdAi("enable", system) => /\ bot_reply' = "Unknown system"
                                        /\ bot_ai_systems' = bot_ai_systems]_vars

\* enable_ai(MANUS) has just returned False with two providers disabled, and
\* the chat command has answered "Unknown system"
C8_Witness ==
    /\ reg_ret = [op |-> "enable_ai", provider |-> "manus", was |-> FALSE, ret |-> FALSE]
    /\ Cardinality(enabled_systems) = Cardinality(Registered) - 2
    /\ bot_reply = "Unknown system"

\* C9: enable_ai and disable_ai are idempotent: enabling an enabled provider
\* and disabling a disabled provider both leave the enabled set as it is, and
\* the repeated call reports success.
C9_RepeatIsNoOpSuccess ==
    [][\A p \in Registered :
          /\ EnableAI(p) => (p \in enabled_systems' /\ reg_ret'.ret = TRUE)
          /\ (EnableAI(p) /\ p \in enabled_systems) => enabled_systems' = enabled_systems
          /\ DisableAI(p) => p \notin enabled_systems'
          /\ (DisableAI(p) /\ p \notin enabled_systems) =>
                (enabled_systems' = enabled_systems /\ reg_ret'.ret = TRUE)]_vars

\* What the code does for C9: enabling an enabled provider leaves the enabled
\* set as it is and returns True, as the first enable did; disabling a provider
\* that is not enabled leaves the enabled set as it is and returns False, where
\* the disable that removed it returned True.
RepeatLeavesSetAlone ==
    [][\A p \in Registered :
          /\ EnableAI(p) => (p \in enabled_systems' /\ reg_ret'.ret = TRUE)
          /\ (EnableAI(p) /\ p \in enabled_systems) => enabled_systems' = enabled_systems
          /\ DisableAI(p) => (p \notin enabled_systems'
                              /\ reg_ret'.ret = (p \in enabled_systems))
          /\ (DisableAI(p) /\ p \notin enabled_systems) =>
                enabled_systems' = enabled_systems]_vars

\* A registered provider has just been disabled while it was not enabled
RepeatedDisableReached ==
    /\ reg_ret.op = "disable_ai"
    /\ reg_ret.provider \in Registered
    /\ ~reg_ret.was
    /\ ~reg_ret.ret

\* C10: a dispatch produces its result or its error only when every provider
\* task it started has ended, by a response or by an exception.
C10_FullJoin ==
    \A c \in Callers :
        /\ call[c].out.status # "none" => Len(call[c].got) = Len(call[c].tasks)
        /\ (call[c].pc = "gather" /\ Len(call[c].got) < Len(call[c].tasks)) =>
              (call[c].out = NoOutcome /\ call[c].ret = NoOutcome)

\* A call over three or more tasks has ended in the exception of its first
\* task, after the tasks behind it ran
C10_Witness ==
    \E c \in Callers :
        /\ call[c].pc = "done"
        /\ Len(call[c].tasks) >= 3
        /\ call[c].out.status = "raised"
        /\ ~call[c].got[1].ok
        /\ call[c].got[Len(call[c].tasks)].ok

\* C11: when the caller cancels a dispatch in flight, every provider task of
\* the call that has not ended is cancelled, none of them answers, and no
\* record of the call is appended to the operation log.
C11_CancelledDispatch ==
    [][\A c \in Callers :
          (call[c].pc = "gather" /\ call'[c].out = Raised("CancelledError")) =>
              /\ Len(call'[c].got) = Len(call[c].tasks)
              /\ \A i \in 1..Len(call[c].got) : call'[c].got[i] = call[c].got[i]
              /\ \A i \in (Len(call[c].got) + 1)..Len(call[c].tasks) :
                    /\ ~call'[c].got[i].ok
                    /\ call'[c].got[i].error = "CancelledError"
              /\ operation_log' = operation_log
              /\ "type" \notin DOMAIN call'[c].ret]_vars

\* An operation of ManusAISystem was cancelled while two or more of its provider
\* tasks had not run, after an earlier operation had left its record
C11_Witness ==
    \E c \in Callers :
        /\ call[c].pc = "done"
        /\ IsDispatch(call[c])
        /\ call[c].out = Raised("CancelledError")
        /\ Len(call[c].got) >= 2
        /\ call[c].got[Len(call[c].got) - 1].error = "CancelledError"
        /\ Len(operation_log) >= 2
        /\ stats.total_operations > stats.successful_operations + stats.failed_operations

\* C12: every error reaches the caller as a returned value: no call ends with
\* an exception raised out of it, whatever is enabled and whichever provider
\* fails.
C12_NoUncaughtException ==
    \A c \in Callers :
        call[c].pc = "done" =>
            ("status" \in DOMAIN call[c].ret => call[c].ret.status # "raised")

\* What the code does for C12: an operation of ManusAISystem that is not
\* cancelled returns a dict, its error in an "error" field; the exceptions
\* come out of the orchestrator's own *_consensus methods.
OperationsReturnErrors ==
    \A c \in Callers :
        (call[c].pc = "done" /\ call[c].op # "consensus") =>
            \/ "status" \notin DOMAIN call[c].ret
            \/ call[c].ret.status # "raised"

\* The state InitStatus starts from with one generate_code done is the state
\* initialize and one generate_code lead to
OneGenerationReached ==
    /\ call["a"].pc = "idle"
    /\ Len(operation_log) = 2
    /\ operation_log[2] = [type |-> "code_generation", pr_number |-> FirstPrNumber,
                           status |-> "success", ai_consensus |-> "high"]
    /\ stats = [total_operations |-> 1, successful_operations |-> 1,
                failed_operations |-> 0, code_files_generated |-> 1,
                commits_made |-> 1, prs_created |-> 1, deployments |-> 0]
    /\ github = [authenticated |-> TRUE, commits_made |-> 1, prs_created |-> 1,
                 branches_created |-> 1, commit_history |-> <<[prefix |-> "abc", digits |-> <<0, 0, 0, 0, 0>>]>>,
                 pr_history |-> <<FirstPrNumber>>, branch_history |-> <<"feature">>]
    /\ consciousness_log = <<[context |-> "code_generation", significance |-> 80,
                              adjustments_needed |-> TRUE]>>
    /\ enabled_systems = Registered
    /\ reg_ret = [op |-> "enable_ai", provider |-> "grok", was |-> TRUE, ret |-> TRUE]
    /\ error_log = <<>>

IsPrefix(s, t) == Len(s) <= Len(t) /\ SubSeq(t, 1, Len(s)) = s

\* C13: the operation log is append-only: whatever the operation, the log
\* before it is a prefix of the log after it, and reading a status or a recent
\* view leaves the log as it is.
C13_LogAppendOnly ==
    [][/\ IsPrefix(operation_log, operation_log')
       /\ Len(operation_log') <= Len(operation_log) + 1
       /\ view' # view => operation_log' = operation_log]_vars

\* A status whose recent_operations are fewer than the log has entries was
\* read, used, and the log still has more than RecentOperations entries
C13_Witness ==
    /\ Len(operation_log) > RecentOperations
    /\ view.op = "get_status" /\ view.object = "system"
    /\ Len(view.value.recent_operations) < Len(operation_log)

\* The last Min(n, Len(log)) entries of log, in the order they were appended
IsLastOf(value, log, n) ==
    /\ Len(value) = Min(n, Len(log))
    /\ value = SubSeq(log, Len(log) - Len(value) + 1, Len(log))

\* C14: for every n >= 0 a recent view (get_commit_history(n),
\* get_pr_history(n), the recent_operations and recent_commits of a status) is
\* the last min(n, length) entries of its log in the order they were appended:
\* nothing for n = 0, the whole log for an n beyond its length.
C14_RecentView ==
    /\ view.op = "get_commit_history" =>
          IsLastOf(view.value, github.commit_history, view.limit)
    /\ view.op = "get_pr_history" =>
          IsLastOf(view.value, github.pr_history, view.limit)
    /\ (view.op = "get_status" /\ view.object = "system") =>
          /\ IsLastOf(view.value.recent_operations, operation_log, RecentOperations)
          /\ IsLastOf(view.value.github.recent_commits, github.commit_history,
                      RecentCommits)

\* What the code does for C14: the views are as claimed for every n >= 1, and
\* a limit of 0 returns the whole history.
RecentViewOfPositiveLimit ==
    /\ view.op = "get_commit_history" =>
          IF view.limit = 0 THEN view.value = github.commit_history
          ELSE IsLastOf(view.value, github.commit_history, view.limit)
    /\ view.op = "get_pr_history" =>
          IF view.limit = 0 THEN view.value = github.pr_history
          ELSE IsLastOf(view.value, github.pr_history, view.limit)
    /\ (view.op = "get_status" /\ view.object = "system") =>
          /\ IsLastOf(view.value.recent_operations, operation_log, RecentOperations)
          /\ IsLastOf(view.value.github.recent_commits, github.commit_history,
                      RecentCommits)

\* C15: get_status has no side effect: a call on the system, the orchestrator,
\* the GitHub automation or the consciousness core leaves the enabled set, the
\* counters, the logs, the histories and the emotional state as they are.
C15_StatusHasNoSideEffect ==
    [][(view' # view /\ view'.op = "get_status") =>
          /\ orchestrator_vars' = orchestrator_vars
          /\ system_vars' = system_vars
          /\ call' = call
          /\ bot_vars' = bot_vars]_vars

\* The status of the whole system was read while a provider was disabled and
\* the log had more entries than a status shows
C15_Witness ==
    /\ view.op = "get_status" /\ view.object = "system"
    /\ enabled_systems # Registered
    /\ Len(operation_log) > RecentOperations
    /\ stats.total_operations > RecentOperations

\* C16: a status shows the state at the time of the call: the enabled
\* providers are the enabled set, the active count its size, the total count
\* the number of registered providers, the recent operations the latest
\* entries of the operation log.
C16_StatusIsCurrent ==
    /\ (view.op = "get_status" /\ view.object = "ai_orchestrator") =>
          /\ view.value.enabled_systems = enabled_systems
          /\ view.value.active_systems = Cardinality(enabled_systems)
          /\ view.value.total_systems = Cardinality(Registered)
    /\ (view.op = "get_status" /\ view.object = "system") =>
          /\ view.value.ai_orchestrator.enabled_systems = enabled_systems
          /\ view.value.ai_orchestrator.active_systems = Cardinality(enabled_systems)
          /\ view.value.ai_orchestrator.total_systems = Cardinality(Registered)
          /\ IsLastOf(view.value.recent_operations, operation_log, RecentOperations)
          /\ view.value.stats = stats
          /\ view.value.is_authenticated = is_authenticated

\* A status read right after a disable_ai that removed a provider and after an
\* operation that left its record: it shows neither the provider nor an old log
C16_Witness ==
    /\ view.op = "get_status" /\ view.object = "system"
    /\ reg_ret.op = "disable_ai" /\ reg_ret.ret
    /\ reg_ret.provider \notin view.value.ai_orchestrator.enabled_systems
    /\ Len(operation_log) = 2
    /\ view.value.recent_operations[2].type = "question_answering"

\* The entries initialize appended to a log
RECURSIVE Initializations(_)
Initializations(log) ==
    IF log = <<>> THEN 0
    ELSE (IF Head(log).type = "initialization" THEN 1 ELSE 0) + Initializations(Tail(log))

\* C17: when operations overlap and complete in any order, no record is lost
\* or duplicated: each operation that completes with success appends its own
\* record, whole, as the one new entry of the log, and the log has one entry
\* for each successful operation.
C17_NoLostRecord ==
    [][/\ \A c \in Callers :
             (call[c].pc # "done" /\ call'[c].pc = "done"
                 /\ "type" \in DOMAIN call'[c].ret) =>
                 operation_log' = Append(operation_log, call'[c].ret)
       /\ Len(operation_log') =
             Initializations(operation_log') + stats'.successful_operations]_vars

\* Two operations of different kinds have both completed, the record of b
\* before the record of a, and neither result is collected yet
C17_Witness ==
    /\ call["a"].pc = "done" /\ call["b"].pc = "done"
    /\ "type" \in DOMAIN call["a"].ret /\ "type" \in DOMAIN call["b"].ret
    /\ call["a"].ret.type # call["b"].ret.type
    /\ Len(call["a"].got) >= 2 /\ Len(call["b"].got) >= 2
    /\ Len(operation_log) = 3
    /\ operation_log[2] = call["b"].ret
    /\ operation_log[3] = call["a"].ret

\* C18: every operation of GitHubAutomation is guarded by the authenticated
\* flag: not authenticated, it returns the "Not authenticated" error and leaves
\* every counter and history as it is; authenticated, it succeeds.
C18_AuthenticatedGate ==
    [][((gh_ret' # gh_ret \/ github' # github) /\ gh_ret'.op \in GitHubOps) =>
          IF ~github.authenticated
          THEN /\ gh_ret'.value = GitHubRefused
               /\ github' = github
          ELSE /\ "error" \notin DOMAIN gh_ret'.value
               /\ gh_ret'.value.status \in {"success", "open"}
               /\ github'.authenticated
               /\ github'.branches_created = github.branches_created
                     + (IF gh_ret'.op = "create_branch" THEN 1 ELSE 0)
               /\ github'.commits_made = github.commits_made
                     + (IF gh_ret'.op = "commit" THEN 1 ELSE 0)
               /\ github'.prs_created = github.prs_created
                     + (IF gh_ret'.op = "create_pull_request" THEN 1 ELSE 0)
               /\ Len(github'.branch_history) = github'.branches_created
               /\ Len(github'.commit_history) = github'.commits_made
               /\ Len(github'.pr_history) = github'.prs_created]_vars

\* commit was called before any authenticate succeeded and was refused
C18_Witness ==
    /\ ~github.authenticated
    /\ gh_ret = [op |-> "commit", value |-> GitHubRefused]
    /\ github.commit_history = <<>>

\* Authenticated, a second pull request was created after a commit
GitHubSucceedsReached ==
    /\ github.authenticated
    /\ gh_ret.op = "create_pull_request"
    /\ gh_ret.value.pr_number = FirstPrNumber + 1
    /\ github.commits_made = 1

\* The label each *_consensus method gives to the mean sum / count
LabelOfKind(kind, avg) ==
    IF avg.sum > HighThreshold * avg.count THEN "high"
    ELSE IF kind = "generate_code" /\ avg.sum <= MediumThreshold * avg.count THEN "low"
    ELSE "medium"

\* C19: the state of the consciousness core has no influence on a dispatch:
\* whatever the emotional state and the stimuli received, the responses, the
\* best response, the mean confidence and the agreement label of a result are
\* those the request kind and the providers enabled at the dispatch determine.
C19_PersonaHasNoInfluence ==
    \A c \in Callers :
        HasReturned(call[c]) =>
            LET result == call[c].out.result
                table  == confidence[call[c].kind]
                mean   == [sum |-> SumOver(table, call[c].seen),
                           count |-> Cardinality(call[c].seen)]
            IN  /\ ProvidersOf(result.responses) = call[c].seen
                /\ Len(result.responses) = Cardinality(call[c].seen)
                /\ \A i \in 1..Len(result.responses) :
                      result.responses[i].confidence = table[result.responses[i].provider]
                /\ result.consensus.average_confidence = mean
                /\ result.consensus.agreement_level = LabelOfKind(call[c].kind, mean)
                /\ call[c].kind = "generate_code" =>
                      IsEarliestMax(result.best_response, call[c].kind, call[c].seen)

\* A result over two or more providers, returned after stimuli that raised
\* frustration and joy above their initial levels
C19_Witness ==
    \E c \in Callers :
        /\ HasReturned(call[c])
        /\ Len(call[c].tasks) >= 2
        /\ emotional_range.frustration > 10
        /\ emotional_range.joy > 70

\* C20: the registered providers are those of the construction, and in every
\* reachable state the enabled set is a subset of them: enable_ai and
\* disable_ai change which providers are enabled and nothing else of a
\* provider; the chat bot's table keeps its five systems.
C20_EnabledWithinRegistry ==
    /\ enabled_systems \subseteq Registered
    /\ DOMAIN bot_ai_systems = Registered
    /\ confidence = ShippedConfidence
    /\ raising = {}

\* Every provider has been disabled, enable_ai(MANUS) has just been refused and
\* the chat bot has a system enabled
C20_Witness ==
    /\ enabled_systems = {}
    /\ reg_ret = [op |-> "enable_ai", provider |-> "manus", was |-> FALSE, ret |-> FALSE]
    /\ bot_ai_systems["grok"]

\* C21: no provider call blocks for ever: on an event loop that runs every
\* ready task, every dispatch that has started completes, with a consensus
\* result or with an error.
C21_DispatchCompletes ==
    \A c \in Callers :
        (call[c].pc = "gather") ~>
            (call[c].pc = "done" /\ call[c].out.status \in {"returned", "raised"})

\* A dispatch to the five providers has completed in an error: its last
\* provider raised, after the four before it had answered
C21_Witness ==
    \E c \in Callers :
        /\ call[c].pc = "done"
        /\ Len(call[c].tasks) = Len(AiSystemsOrder)
        /\ call[c].out.status = "raised"
        /\ \A i \in 1..(Len(call[c].got) - 1) : call[c].got[i].ok
        /\ ~call[c].got[Len(call[c].got)].ok

GatedOperations == {"generate_code", "analyze_code", "ask_question", "deploy"}

\* C22: while is_authenticated is false, generate_code, analyze_code,
\* ask_question and deploy each return {"error": "Not authenticated"} and
\* change nothing: stats, the operation log, the error log, the GitHub counters
\* and histories and the consciousness state stay as they are, and no provider
\* is invoked.
C22_NotAuthenticatedGate ==
    [][\A c \in Callers :
          (~is_authenticated /\ call[c].pc = "idle" /\ call'[c].pc # "idle"
              /\ call'[c].op \in GatedOperations) =>
              /\ call'[c].pc = "done"
              /\ call'[c].ret = NotAuthenticated
              /\ call'[c].tasks = <<>> /\ call'[c].got = <<>>
              /\ stats' = stats
              /\ operation_log' = operation_log
              /\ error_log' = error_log
              /\ github' = github
              /\ consciousness_log' = consciousness_log
              /\ emotional_range' = emotional_range
              /\ is_authenticated' = is_authenticated
              /\ enabled_systems' = enabled_systems]_vars

\* deploy was refused before any initialize, with every provider enabled and
\* nothing counted or logged
C22_Witness ==
    /\ ~is_authenticated
    /\ call["a"].pc = "done" /\ call["a"].op = "deploy"
    /\ call["a"].ret = NotAuthenticated
    /\ enabled_systems = Registered
    /\ stats.total_operations = 0
    /\ operation_log = <<>> /\ error_log = <<>>

\* C23: in every reachable state of ManusAISystem, is_authenticated implies
\* github.authenticated: initialize marks the system authenticated and running
\* only if GitHubAutomation.authenticate succeeded, so an empty token does not
\* leave the system authenticated.
C23_AuthenticatedImpliesGitHub ==
    /\ is_authenticated => github.authenticated
    /\ is_running => github.authenticated

\* C24: after any sequence of initialize, generate_code, analyze_code,
\* ask_question and deploy calls, the statistics of ManusAISystem agree with the
\* GitHub layer: stats.commits_made equals github.commits_made and
\* stats.prs_created equals github.prs_created.
C24_StatsAgreeWithGitHub ==
    /\ stats.commits_made = github.commits_made
    /\ stats.prs_created = github.prs_created

\* What is true of the two layers whatever the token: the statistics count the
\* generate_code calls that returned a record, the GitHub layer the commits
\* and pull requests it accepted, which are never more
GitHubCountsAtMostStats ==
    /\ stats.commits_made = stats.code_files_generated
    /\ stats.prs_created = stats.code_files_generated
    /\ github.commits_made <= stats.commits_made
    /\ github.prs_created <= stats.prs_created
    /\ github.commits_made = github.prs_created

\* The operations of ManusAISystem that are waiting in their gather
InFlight == {c \in Callers : call[c].pc = "gather" /\ call[c].op \in GatedOperations}

\* C25: whenever no operation of ManusAISystem is in flight,
\* stats.total_operations equals stats.successful_operations +
\* stats.failed_operations, after any sequence and interleaving of
\* generate_code, analyze_code, ask_question and deploy calls, those that
\* failed or were cancelled included.
C25_TotalIsSuccessPlusFailed ==
    InFlight = {} =>
        stats.total_operations = stats.successful_operations + stats.failed_operations

\* What is true when no call is cancelled: every operation counted in
\* total_operations is counted as successful or failed, or is still in flight
CountersBalanceWithoutCancel ==
    stats.total_operations =
        stats.successful_operations + stats.failed_operations + Cardinality(InFlight)

\* The entries of a log that initialize did not write
NonInitialization(log) ==
    Len(SelectSeq(log, LAMBDA e : e.type \notin {"initialization", "initialization_error"}))

\* C26: each completed authenticated operation leaves exactly one trace: a
\* successful one appends one record of status "success" to the operation log
\* and nothing to the error log, a failed one appends one record to the error
\* log and nothing to the operation log; so successful_operations is the
\* number of non-initialization entries of the operation log and
\* failed_operations that of the error log.
C26_OneTracePerOperation ==
    [][/\ \A c \in Callers :
             (call[c].pc # "done" /\ call'[c].pc = "done"
                 /\ call'[c].op \in GatedOperations
                 /\ call'[c].ret # NotAuthenticated) =>
                 IF "error" \in DOMAIN call'[c].ret
                 THEN /\ Len(error_log') = Len(error_log) + 1
                      /\ IsPrefix(error_log, error_log')
                      /\ error_log'[Len(error_log')].error = call'[c].ret.error
                      /\ operation_log' = operation_log
                 ELSE /\ operation_log' = Append(operation_log, call'[c].ret)
                      /\ call'[c].ret.status = "success"
                      /\ error_log' = error_log
       /\ stats'.successful_operations = NonInitialization(operation_log')
       /\ stats'.failed_operations = NonInitialization(error_log')]_vars

\* An operation has just failed after another had succeeded: one entry in the
\* error log, two (the initialization and the success) in the operation log
C26_Witness ==
    /\ call["a"].pc = "done"
    /\ call["a"].op \in GatedOperations
    /\ "error" \in DOMAIN call["a"].ret /\ call["a"].ret # NotAuthenticated
    /\ Len(error_log) = 1
    /\ Len(operation_log) = 2
    /\ stats.successful_operations = 1 /\ stats.failed_operations = 1

\* The "type" of each step's result, for the steps that have one
StepTypes(steps) == [i \in 1..Len(steps) |-> steps[i].type]

\* The documented order of the steps, as the types of their results
DocumentedOrder(workflow) ==
    IF workflow = "release_workflow"
    THEN <<"create_branch", "create_release", "deploy">>
    ELSE <<"create_branch", "commit", "create_pr">>

\* C27: a GitWorkflow run reports status "success" only if each of its steps
\* succeeded, and its steps are executed and listed in the documented order;
\* a workflow run on an unauthenticated GitHubAutomation does not report
\* "success".
C27_WorkflowSuccess ==
    gh_ret.op \in Workflows =>
        /\ gh_ret.value.status = "success" =>
              \A i \in 1..Len(gh_ret.value.steps) : "error" \notin DOMAIN gh_ret.value.steps[i]
        /\ ~github.authenticated => gh_ret.value.status # "success"
        /\ github.authenticated =>
              StepTypes(gh_ret.value.steps) = DocumentedOrder(gh_ret.op)

\* What the code does for C27: a workflow lists the results of its three steps
\* in the documented order, each refused when GitHubAutomation is not
\* authenticated, and reports "success" in both cases.
WorkflowAlwaysReportsSuccess ==
    gh_ret.op \in Workflows =>
        /\ gh_ret.value.status = "success"
        /\ Len(gh_ret.value.steps) = 3
        /\ IF github.authenticated
           THEN StepTypes(gh_ret.value.steps) = DocumentedOrder(gh_ret.op)
           ELSE \A i \in 1..3 : gh_ret.value.steps[i] = GitHubRefused

\* A release workflow has run after a feature workflow, authenticated
WorkflowsReached ==
    /\ github.authenticated
    /\ gh_ret.op = "release_workflow"
    /\ github.branch_history = <<"feature", "release">>
    /\ github.commits_made = 1

\* The number a sequence of decimal digits denotes
RECURSIVE DigitsValue(_)
DigitsValue(d) ==
    IF d = <<>> THEN 0 ELSE 10 * DigitsValue(SubSeq(d, 1, Len(d) - 1)) + d[Len(d)]

\* s is before t in the order of strings
RECURSIVE LexLess(_, _)
LexLess(s, t) ==
    IF t = <<>> THEN FALSE
    ELSE IF s = <<>> THEN TRUE
    ELSE IF Head(s) # Head(t) THEN Head(s) < Head(t)
    ELSE LexLess(Tail(s), Tail(t))

C29_ScoreInRange ==
    view.op = "evaluate_action" =>
        LET score  == view.value
            listed == Range(view.violated_principles) \cap Range(PrincipleOrder)
        IN  /\ 0 <= score.num /\ score.num <= score.den
            /\ listed = {} => score.num = score.den
            /\ listed = Range(PrincipleOrder) => score.num = 0

\* What the code does for C29: the score is 1 less the listed weight over the
\* total weight, a principle listed twice weighing twice; it is between 0 and
\* 1, 1.0 with no known principle listed and 0.0 with all ten, when no
\* principle is listed more than once.
ScoreCountsRepeats ==
    view.op = "evaluate_action" =>
        LET score  == view.value
            list   == view.violated_principles
            known  == SelectSeq(list, LAMBDA p : p \in Range(PrincipleOrder))
            listed == Range(known)
        IN  /\ score.den * TotalWeight = (score.den * SumWeights(known)) + (score.num * TotalWeight)
            /\ Len(known) = Cardinality(listed) =>
                  /\ 0 <= score.num /\ score.num <= score.den
                  /\ listed = {} => score.num = score.den
                  /\ listed = Range(PrincipleOrder) => score.num = 0

\* The score of a list naming nine principles once and an unknown name
NineViolatedReached ==
    /\ view.op = "evaluate_action"
    /\ Len(view.violated_principles) = 10
    /\ "obedience" \in Range(view.violated_principles)
    /\ view.value.num > 0 /\ view.value.num < view.value.den

\* C30: after any sequence of update_emotion and process_stimulus calls, with
\* any deltas and stimulus types, every emotion's level is within [0.0, 1.0];
\* an update for an unknown emotion name changes nothing, and a stimulus whose
\* type is not success, challenge or failure leaves every level as it is while
\* it appends exactly one reflection to the consciousness log.
C30_EmotionsClamped ==
    [][/\ DOMAIN emotional_range' = Range(EmotionOrder)
       /\ \A e \in Range(EmotionOrder) :
             0 <= emotional_range'[e] /\ emotional_range'[e] <= 100
       /\ \A e \in EmotionPool \ Range(EmotionOrder), d \in Deltas :
             UpdateEmotionCall(e, d) => emotional_range' = emotional_range
       /\ \A t \in AnyStimulusTypes :
             ProcessStimulus(t) =>
                 /\ Len(consciousness_log') = Len(consciousness_log) + 1
                 /\ IsPrefix(consciousness_log, consciousness_log')
                 /\ consciousness_log'[Len(consciousness_log')].context = t
                 /\ t \notin StimulusTypes => emotional_range' = emotional_range]_vars

\* Joy was raised to its upper limit and frustration lowered to its lower
\* limit, and a stimulus of no known type has left its reflection
C30_Witness ==
    /\ emotional_range.joy = 100
    /\ emotional_range.frustration = 0
    /\ Len(consciousness_log) >= 1
    /\ consciousness_log[Len(consciousness_log)].context = "unknown"

====
